---- MODULE Spec2Model ----
(***************************************************************************)
(* RbfoptUserBlackBox (rbfopt_user_black_box.py) and the abstract          *)
(* RbfoptBlackBox it derives from (rbfopt_black_box.py).                    *)
(*                                                                         *)
(* The model follows Python 3 with assert statements executed (the default *)
(* interpreter mode).  In Python 3 the class attribute __metaclass__ of    *)
(* RbfoptBlackBox is an ordinary attribute, so the methods the adapter     *)
(* does not override (evaluate_noisy, has_evaluate_noisy) are inherited    *)
(* with their empty bodies and return None.  The adapter's own fast path   *)
(* is named evaluate_fast / has_evaluate_fast.                             *)
(*                                                                         *)
(* Python values: None is the string "None"; an argument left out of the   *)
(* constructor call is "Missing".  A numpy array is an address into heap.  *)
(***************************************************************************)
EXTENDS Integers, Sequences, FiniteSets, TLC

(* ------------------------------ bounds -------------------------------- *)

\* largest dimension a caller passes; arrays and points are up to one longer
MaxDim == 5
\* how many times the side-effecting stub evaluator is invoked at most
MaxTicks == 2
\* how many times the caller overwrites an array it passed in
MaxWrites == 1

\* the numbers that fill points and overwritten arrays
Vals == {0, 1}

\* the threads that share one adapter, and the dimensions they share it at
Threads == {"t1", "t2"}
ConcDims == {0, 1}
ConcLens == {0, 1, 2}

VARIABLES
    phase,      \* "start" | "built" | "failed": has the constructor run
    args,       \* the arguments the caller gave to the constructor
    supplied,   \* contents of the caller's arrays when the constructor ran
    ctor_error, \* the exception the constructor raised, "" for none
    self,       \* the adapter object, NoObject until constructed
    heap,       \* address -> contents of every numpy array alive
    ticks,      \* state of the side-effecting stub evaluator
    writes,     \* overwrites the caller made of its own arrays
    last,       \* the most recent completed method call and its outcome
    pcs         \* thread -> the evaluation call it is inside, if any

vars == <<phase, args, supplied, ctor_error, self, heap, ticks, writes, last, pcs>>

(* --------------------------- Python values ---------------------------- *)

PyNone == [kind |-> "None", val |-> 0]
PyMissing == [kind |-> "Missing", val |-> 0]
PyInt(n) == [kind |-> "int", val |-> n]
PyRef(a) == [kind |-> "ref", val |-> a]

NoObject == [exists |-> FALSE]

Fill(n, v) == [i \in 1..n |-> v]

RECURSIVE Sum(_)
Sum(x) == IF x = <<>> THEN 0 ELSE Head(x) + Sum(Tail(x))

\* index arrays: the first n variable indices 0 .. n-1
Indices(n) == [i \in 1..n |-> i - 1]

Min(a, b) == IF a <= b THEN a ELSE b
Max(a, b) == IF a >= b THEN a ELSE b

(* ------------------------ the caller's inputs ------------------------- *)

\* the contents the caller gives to its arrays: the box [0, 1]^n and the
\* first n indices, each up to one element longer than the largest dimension
Lens == 0..(MaxDim + 1)
LowerArrays == { Fill(n, 0) : n \in Lens }
UpperArrays == { Fill(n, 1) : n \in Lens }
IndexArrays == { Indices(n) : n \in Lens }
Points == { Fill(n, v) : n \in Lens, v \in Vals }

\* the stub evaluators of the caller
ExactFns == {"Sum", "Tick"}
FastFns == {"Good", "Bad"}

\* obj_funct(x): "Sum" is pure; "Tick" has a side effect and answers
\* differently on every invocation
ExactReply(fn, x, t) ==
    IF fn = "Sum" THEN [value |-> Sum(x), ticks |-> t]
    ELSE [value |-> t, ticks |-> t + 1]

\* obj_funct_fast(x): "Good" brackets zero, "Bad" breaks lower <= 0 <= upper
FastReply(fn, x) ==
    IF fn = "Good" THEN <<Sum(x), -1, 1>> ELSE <<Sum(x), 1, -1>>

(* ------------------------------- numpy -------------------------------- *)

NewAddr(h) == Len(h) + 1

\* a mutant of np_array: np.asarray, which hands back the caller's array
np_asarray(h, a) == [heap |-> h, ref |-> a]

\* np.array(a): a new array holding a copy of a's contents
np_array(h, a) ==
    [heap |-> Append(h, h[a]), ref |-> NewAddr(h)]

(* ----------------------------- __init__ ------------------------------- *)

Failed(e, h) == [error |-> e, self |-> NoObject, heap |-> h]

\* len(var) == dimension, as Python evaluates it (False when dimension is None)
LenEq(h, arr, dim) == dim.kind = "int" /\ Len(h[arr.val]) = dim.val

\* a mutant of init_asserts: the check of integer_vars is left out
init_asserts_no_integer_check(a, h) ==
    IF a.var_lower.kind # "ref" THEN "TypeError"
    ELSE IF ~LenEq(h, a.var_lower, a.dimension) THEN "AssertionError"
    ELSE IF a.var_upper.kind # "ref" THEN "TypeError"
    ELSE IF ~LenEq(h, a.var_upper, a.dimension) THEN "AssertionError"
    ELSE IF a.integer_vars.kind # "ref" THEN "TypeError"
    ELSE ""

\* a mutant of init_asserts: var_upper is checked against var_lower's assert
init_asserts_upper_unchecked(a, h) ==
    IF a.var_lower.kind # "ref" THEN "TypeError"
    ELSE IF ~LenEq(h, a.var_lower, a.dimension) THEN "AssertionError"
    ELSE IF a.var_upper.kind # "ref" THEN "TypeError"
    ELSE IF a.integer_vars.kind # "ref" THEN "TypeError"
    ELSE IF ~(Len(h[a.integer_vars.val]) <= a.dimension.val) THEN "AssertionError"
    ELSE ""

\* the three assert statements: the exception the first failing one raises
\* (len(None) is a TypeError), "" when all pass
init_asserts(a, h) ==
    IF a.var_lower.kind # "ref" THEN "TypeError"
    ELSE IF ~LenEq(h, a.var_lower, a.dimension) THEN "AssertionError"
    ELSE IF a.var_upper.kind # "ref" THEN "TypeError"
    ELSE IF ~LenEq(h, a.var_upper, a.dimension) THEN "AssertionError"
    ELSE IF a.integer_vars.kind # "ref" THEN "TypeError"
    ELSE IF ~(Len(h[a.integer_vars.val]) <= a.dimension.val) THEN "AssertionError"
    ELSE ""

\* the six assignments to self
init_store(a, h) ==
    LET l == np_array(h, a.var_lower.val)
        u == np_array(l.heap, a.var_upper.val)
        i == np_array(u.heap, a.integer_vars.val)
    IN  [error |-> "",
         self  |-> [exists |-> TRUE,
                    dimension |-> a.dimension,
                    var_lower |-> l.ref,
                    var_upper |-> u.ref,
                    integer_vars |-> i.ref,
                    obj_funct |-> a.obj_funct,
                    obj_funct_fast |-> a.obj_funct_fast],
         heap  |-> i.heap]

\* the body of __init__, its parameters bound
init_body(a, h) ==
    IF init_asserts(a, h) # "" THEN Failed(init_asserts(a, h), h)
    ELSE init_store(a, h)

\* a mutant of __init__: obj_funct declared with a default of None as well
init_obj_funct_defaulted(a, h) ==
    IF \/ a.dimension = PyMissing \/ a.var_lower = PyMissing
       \/ a.var_upper = PyMissing \/ a.integer_vars = PyMissing
    THEN Failed("TypeError", h)
    ELSE init_body([a EXCEPT !.obj_funct = IF @ = "Missing" THEN "None" ELSE @,
                             !.obj_funct_fast = IF @ = "Missing" THEN "None" ELSE @], h)

\* the constructor call: Python binds the parameters (obj_funct_fast
\* defaults to None, the other five are required), then runs the body
__init__(a, h) ==
    IF \/ a.dimension = PyMissing \/ a.var_lower = PyMissing
       \/ a.var_upper = PyMissing \/ a.integer_vars = PyMissing
       \/ a.obj_funct = "Missing"
    THEN Failed("TypeError", h)
    ELSE init_body([a EXCEPT !.obj_funct_fast = IF @ = "Missing" THEN "None" ELSE @], h)

(* ------------------------------ getters ------------------------------- *)

\* how a method call ends: the object as the method leaves it, the value or
\* exception, the evaluator invocations it made, the stub's state after it
Return(s, v, inv, t) ==
    [self |-> s, outcome |-> "return", value |-> v, error |-> "",
     invoked |-> inv, ticks |-> t]
Raise(s, e, t) ==
    [self |-> s, outcome |-> "raise", value |-> "None", error |-> e,
     invoked |-> <<>>, ticks |-> t]

get_dimension(s) == s.dimension
get_var_lower(s) == s.var_lower
get_var_upper(s) == s.var_upper
get_integer_vars(s) == s.integer_vars

(* ----------------------------- evaluation ----------------------------- *)

\* len(x) == self.dimension
len_assert(s, x) == PyInt(Len(x)) = s.dimension

\* a mutant of evaluate_body: the result is kept on the object (self.cache)
evaluate_body_memo(s, x, t) ==
    IF s.obj_funct = "None" THEN Raise(s, "TypeError", t)
    ELSE LET r == ExactReply(s.obj_funct, x, t)
         IN  Return([f \in DOMAIN s \cup {"cache"} |->
                        IF f = "cache" THEN r.value ELSE s[f]], r.value,
                    <<[fn |-> s.obj_funct, arg |-> x, reply |-> r.value]>>,
                    r.ticks)

\* a mutant of evaluate_body: the previous result is reused for the same point
evaluate_body_cached(s, x, t) ==
    IF s.obj_funct = "None" THEN Raise(s, "TypeError", t)
    ELSE IF last.op = "evaluate" /\ last.outcome = "return" /\ last.x = x
         THEN Return(s, last.value, <<>>, t)
    ELSE LET r == ExactReply(s.obj_funct, x, t)
         IN  Return(s, r.value,
                    <<[fn |-> s.obj_funct, arg |-> x, reply |-> r.value]>>,
                    r.ticks)

\* return self.obj_funct(x); calling None is a TypeError
evaluate_body(s, x, t) ==
    IF s.obj_funct = "None" THEN Raise(s, "TypeError", t)
    ELSE LET r == ExactReply(s.obj_funct, x, t)
         IN  Return(s, r.value,
                    <<[fn |-> s.obj_funct, arg |-> x, reply |-> r.value]>>,
                    r.ticks)

\* a mutant of evaluate: the assert is left out
evaluate_unchecked(s, x, t) == evaluate_body(s, x, t)

evaluate(s, x, t) ==
    IF ~len_assert(s, x) THEN Raise(s, "AssertionError", t)
    ELSE evaluate_body(s, x, t)

\* a mutant of evaluate_fast_body: the error bounds are forced to bracket zero
evaluate_fast_body_clamped(s, x, t) ==
    IF s.obj_funct_fast = "None" THEN Raise(s, "NotImplementedError", t)
    ELSE LET r == FastReply(s.obj_funct_fast, x)
             c == <<r[1], Min(r[2], 0), Max(r[3], 0)>>
         IN  Return(s, c, <<[fn |-> s.obj_funct_fast, arg |-> x, reply |-> r]>>, t)

\* the None test and the call of self.obj_funct_fast
evaluate_fast_body(s, x, t) ==
    IF s.obj_funct_fast = "None" THEN Raise(s, "NotImplementedError", t)
    ELSE LET r == FastReply(s.obj_funct_fast, x)
         IN  Return(s, r, <<[fn |-> s.obj_funct_fast, arg |-> x, reply |-> r]>>, t)

\* a mutant of evaluate_fast: the None test comes before the assert
evaluate_fast_none_first(s, x, t) ==
    IF s.obj_funct_fast = "None" THEN Raise(s, "NotImplementedError", t)
    ELSE IF ~len_assert(s, x) THEN Raise(s, "AssertionError", t)
    ELSE evaluate_fast_body(s, x, t)

evaluate_fast(s, x, t) ==
    IF ~len_assert(s, x) THEN Raise(s, "AssertionError", t)
    ELSE evaluate_fast_body(s, x, t)

\* a mutant of has_evaluate_fast: the other evaluator is tested
has_evaluate_fast_other_field(s) == s.obj_funct # "None"

has_evaluate_fast(s) == s.obj_funct_fast # "None"

\* inherited from RbfoptBlackBox, where the body is pass
evaluate_noisy(s, x) == "None"
has_evaluate_noisy(s) == "None"

(* ------------------------------ actions ------------------------------- *)

NoCall == [op |-> "none", x |-> <<>>, outcome |-> "", value |-> "None",
           error |-> "", invoked |-> <<>>]

Called(op, x, r) ==
    [op |-> op, x |-> x, outcome |-> r.outcome, value |-> r.value,
     error |-> r.error, invoked |-> r.invoked]

Idle == [pc |-> "idle", op |-> "none", x |-> <<>>]

Init ==
    /\ phase = "start"
    /\ args = [dimension |-> PyMissing, var_lower |-> PyMissing,
               var_upper |-> PyMissing, integer_vars |-> PyMissing,
               obj_funct |-> "Missing", obj_funct_fast |-> "Missing"]
    /\ supplied = [var_lower |-> <<>>, var_upper |-> <<>>, integer_vars |-> <<>>]
    /\ ctor_error = ""
    /\ self = NoObject
    /\ heap = <<>>
    /\ ticks = 0
    /\ writes = 0
    /\ last = NoCall
    /\ pcs = [t \in Threads |-> Idle]

\* what the caller may write for each constructor argument: nothing, None,
\* or a value
DimArgs(D) == {PyMissing, PyNone} \cup { PyInt(n) : n \in D }
ArrayChoices(S) ==
    {[kind |-> "Missing", val |-> <<>>], [kind |-> "None", val |-> <<>>]}
        \cup { [kind |-> "ref", val |-> c] : c \in S }
ArgOf(c, addr) == IF c.kind = "ref" THEN PyRef(addr) ELSE [c EXCEPT !.val = 0]
Shorter(S, L) == { c \in S : Len(c) \in L }

\* the caller builds its arrays at addresses 1, 2, 3 and calls the constructor
ConstructFrom(D, L) ==
    /\ phase = "start"
    /\ \E d \in DimArgs(D),
          lo \in ArrayChoices(Shorter(LowerArrays, L)),
          up \in ArrayChoices(Shorter(UpperArrays, L)),
          iv \in ArrayChoices(Shorter(IndexArrays, L)),
          f \in {"Missing", "None"} \cup ExactFns,
          ff \in {"Missing", "None"} \cup FastFns :
        LET h0 == <<lo.val, up.val, iv.val>>
            a  == [dimension |-> d, var_lower |-> ArgOf(lo, 1),
                   var_upper |-> ArgOf(up, 2), integer_vars |-> ArgOf(iv, 3),
                   obj_funct |-> f, obj_funct_fast |-> ff]
            r  == __init__(a, h0)
        IN  /\ args' = a
            /\ supplied' = [var_lower |-> h0[1], var_upper |-> h0[2],
                            integer_vars |-> h0[3]]
            /\ ctor_error' = r.error
            /\ self' = r.self
            /\ heap' = r.heap
            /\ phase' = IF r.error = "" THEN "built" ELSE "failed"
    /\ UNCHANGED <<ticks, writes, last, pcs>>

Construct == ConstructFrom(0..MaxDim, Lens)

\* one method call, start to end
Call(op, x, r) ==
    /\ self.exists
    /\ r.ticks <= MaxTicks
    /\ last' = Called(op, x, r)
    /\ self' = r.self
    /\ ticks' = r.ticks
    /\ UNCHANGED <<phase, args, supplied, ctor_error, heap, writes, pcs>>

CallGetDimension ==
    self.exists /\ Call("get_dimension", <<>>, Return(self, get_dimension(self), <<>>, ticks))

CallGetVarLower ==
    self.exists /\ Call("get_var_lower", <<>>, Return(self, get_var_lower(self), <<>>, ticks))

CallGetVarUpper ==
    self.exists /\ Call("get_var_upper", <<>>, Return(self, get_var_upper(self), <<>>, ticks))

CallGetIntegerVars ==
    self.exists /\ Call("get_integer_vars", <<>>,
                        Return(self, get_integer_vars(self), <<>>, ticks))

CallEvaluate ==
    self.exists /\ \E x \in Points : Call("evaluate", x, evaluate(self, x, ticks))

CallEvaluateFast ==
    self.exists /\ \E x \in Points : Call("evaluate_fast", x, evaluate_fast(self, x, ticks))

CallHasEvaluateFast ==
    self.exists /\ Call("has_evaluate_fast", <<>>,
                        Return(self, has_evaluate_fast(self), <<>>, ticks))

CallEvaluateNoisy ==
    self.exists /\ \E x \in Points :
        Call("evaluate_noisy", x, Return(self, evaluate_noisy(self, x), <<>>, ticks))

CallHasEvaluateNoisy ==
    self.exists /\ Call("has_evaluate_noisy", <<>>,
                        Return(self, has_evaluate_noisy(self), <<>>, ticks))

\* the caller overwrites an array it passed to the constructor: a[:] = v
CallerWrites ==
    /\ phase = "built"
    /\ writes < MaxWrites
    /\ \E a \in 1..3 : \E v \in Vals :
        /\ heap[a] # Fill(Len(heap[a]), v)
        /\ heap' = [heap EXCEPT ![a] = Fill(Len(heap[a]), v)]
    /\ writes' = writes + 1
    /\ UNCHANGED <<phase, args, supplied, ctor_error, self, ticks, last, pcs>>

Next ==
    \/ Construct
    \/ CallGetDimension
    \/ CallGetVarLower
    \/ CallGetVarUpper
    \/ CallGetIntegerVars
    \/ CallEvaluate
    \/ CallEvaluateFast
    \/ CallHasEvaluateFast
    \/ CallEvaluateNoisy
    \/ CallHasEvaluateNoisy
    \/ CallerWrites

Spec == Init /\ [][Next]_vars

(* ------------------------- concurrent callers -------------------------- *)

\* evaluate and evaluate_fast as the interpreter runs them for a thread: the
\* assert, then the call of the evaluator, with other threads in between

Enter(t) ==
    /\ self.exists
    /\ pcs[t].pc = "idle"
    /\ \E op \in {"evaluate", "evaluate_fast"}, x \in Shorter(Points, ConcLens) :
        pcs' = [pcs EXCEPT ![t] = [pc |-> "entered", op |-> op, x |-> x]]
    /\ UNCHANGED <<phase, args, supplied, ctor_error, self, heap, ticks, writes, last>>

Check(t) ==
    /\ pcs[t].pc = "entered"
    /\ IF len_assert(self, pcs[t].x)
       THEN /\ pcs' = [pcs EXCEPT ![t].pc = "checked"]
            /\ UNCHANGED last
       ELSE /\ pcs' = [pcs EXCEPT ![t] = Idle]
            /\ last' = Called(pcs[t].op, pcs[t].x, Raise(self, "AssertionError", ticks))
    /\ UNCHANGED <<phase, args, supplied, ctor_error, self, heap, ticks, writes>>

Finish(t) ==
    /\ pcs[t].pc = "checked"
    /\ LET r == IF pcs[t].op = "evaluate"
                THEN evaluate_body(self, pcs[t].x, ticks)
                ELSE evaluate_fast_body(self, pcs[t].x, ticks)
       IN  /\ r.ticks <= MaxTicks
           /\ last' = Called(pcs[t].op, pcs[t].x, r)
           /\ self' = r.self
           /\ ticks' = r.ticks
    /\ pcs' = [pcs EXCEPT ![t] = Idle]
    /\ UNCHANGED <<phase, args, supplied, ctor_error, heap, writes>>

ConstructSmall == ConstructFrom(ConcDims, ConcLens)

NextConc ==
    \/ ConstructSmall
    \/ CallGetDimension
    \/ CallGetVarLower
    \/ CallGetVarUpper
    \/ CallGetIntegerVars
    \/ CallHasEvaluateFast
    \/ CallEvaluateNoisy
    \/ CallHasEvaluateNoisy
    \/ \E t \in Threads : Enter(t)
    \/ \E t \in Threads : Check(t)
    \/ \E t \in Threads : Finish(t)

SpecConc == Init /\ [][NextConc]_vars

(* ------------------------------- claims -------------------------------- *)

Dim == self.dimension.val
RightLength == Len(last.x) = Dim
OwnLower == heap[get_var_lower(self)]
OwnUpper == heap[get_var_upper(self)]
OwnIntegerVars == heap[get_integer_vars(self)]
FastSupplied == args.obj_funct_fast \in FastFns

\* C1 as claimed: evaluate_fast on an adapter without a fast evaluator always
\* fails with NotImplementedError, whatever the length of x.
C1_AlwaysCapabilityError ==
    (self.exists /\ last.op = "evaluate_fast" /\ self.obj_funct_fast = "None")
        => (last.outcome = "raise" /\ last.error = "NotImplementedError")

\* C1 as amended: without a fast evaluator evaluate_fast always fails and
\* invokes nothing; the error is NotImplementedError when len(x) equals the
\* dimension and the AssertionError of the length check, which runs first,
\* when it does not.
C1_LengthCheckedFirst ==
    (self.exists /\ last.op = "evaluate_fast" /\ self.obj_funct_fast = "None")
        => /\ last.outcome = "raise"
           /\ last.invoked = <<>>
           /\ RightLength => last.error = "NotImplementedError"
           /\ ~RightLength => last.error = "AssertionError"

C1_Witness ==
    /\ self.exists /\ last.op = "evaluate_fast" /\ self.obj_funct_fast = "None"
    /\ ~RightLength /\ last.error = "AssertionError"

LengthsDisagree ==
    /\ phase # "start"
    /\ args.dimension.kind = "int"
    /\ \/ args.var_lower.kind = "ref" /\ Len(supplied.var_lower) # args.dimension.val
       \/ args.var_upper.kind = "ref" /\ Len(supplied.var_upper) # args.dimension.val
       \/ args.integer_vars.kind = "ref"
            /\ Len(supplied.integer_vars) > args.dimension.val
AllArraysGiven ==
    /\ args.var_lower.kind = "ref" /\ args.var_upper.kind = "ref"
    /\ args.integer_vars.kind = "ref" /\ args.obj_funct # "Missing"

\* C3: when len(var_lower) or len(var_upper) differs from dimension, or
\* len(integer_vars) exceeds it, the constructor raises, no adapter exists
\* and no method was ever called on one; with all arrays given the exception
\* is the AssertionError.
C3_MismatchFailsConstruction ==
    LengthsDisagree =>
        /\ phase = "failed" /\ ~self.exists /\ ctor_error # "" /\ last = NoCall
        /\ AllArraysGiven => ctor_error = "AssertionError"

C3_Witness ==
    /\ LengthsDisagree /\ AllArraysGiven
    /\ Len(supplied.var_lower) = args.dimension.val
    /\ Len(supplied.var_upper) = args.dimension.val
    /\ Len(supplied.integer_vars) > args.dimension.val
    /\ ctor_error = "AssertionError"

\* C4 as claimed: a constructor call without an exact evaluator (left out or
\* None) is refused, so no adapter has None for obj_funct.
C4_AbsentExactRefused ==
    /\ (phase # "start" /\ args.obj_funct \in {"Missing", "None"})
          => (phase = "failed" /\ ~self.exists)
    /\ self.exists => self.obj_funct # "None"

\* C4 as amended: a constructor call that leaves obj_funct out is refused with
\* a TypeError, as one that leaves out dimension or an array is; None for
\* obj_funct is not checked: it is stored when the lengths agree, and
\* evaluate(x) with len(x) equal to the dimension then raises TypeError
\* without invoking anything.
C4_OnlyOmissionRefused ==
    /\ (phase # "start" /\ (\/ args.obj_funct = "Missing"
                            \/ args.dimension = PyMissing
                            \/ args.var_lower = PyMissing
                            \/ args.var_upper = PyMissing
                            \/ args.integer_vars = PyMissing))
          => (phase = "failed" /\ ~self.exists /\ ctor_error = "TypeError")
    /\ (phase # "start" /\ args.obj_funct = "None" /\ ~LengthsDisagree
            /\ args.dimension.kind = "int" /\ AllArraysGiven)
          => (phase = "built" /\ self.exists /\ self.obj_funct = "None")
    /\ (self.exists /\ last.op = "evaluate" /\ self.obj_funct = "None" /\ RightLength)
          => (last.outcome = "raise" /\ last.error = "TypeError" /\ last.invoked = <<>>)

C4_Witness ==
    /\ self.exists /\ self.obj_funct = "None"
    /\ last.op = "evaluate" /\ RightLength /\ last.error = "TypeError"

\* C5: evaluate(x) with len(x) different from the dimension raises the
\* AssertionError, invokes no evaluator and passes no shortened or extended
\* point to one, at every dimension.
C5_WrongLengthRejected ==
    (self.exists /\ last.op = "evaluate" /\ ~RightLength)
        => (last.outcome = "raise" /\ last.error = "AssertionError"
            /\ last.invoked = <<>>)

C5_Witness ==
    /\ self.exists /\ Dim = 5 /\ self.obj_funct = "Sum"
    /\ last.op = "evaluate" /\ Len(last.x) = 4 /\ last.error = "AssertionError"

\* C6: evaluate(x) with len(x) equal to the dimension, on an adapter holding
\* an exact evaluator, invokes that evaluator once, with x, invokes nothing
\* else, and returns the reply of that very invocation.
C6_ExactPassThrough ==
    (self.exists /\ last.op = "evaluate" /\ RightLength /\ self.obj_funct # "None")
        => /\ last.outcome = "return"
           /\ last.invoked = <<[fn |-> self.obj_funct, arg |-> last.x,
                                reply |-> last.value]>>
           /\ last.value = IF self.obj_funct = "Sum" THEN Sum(last.x) ELSE ticks - 1

C6_Witness ==
    /\ self.exists /\ last.op = "evaluate" /\ RightLength /\ Dim > 0
    /\ self.obj_funct = "Tick" /\ last.value = 1

\* C7: evaluate_fast(x) with len(x) equal to the dimension, on an adapter
\* holding a fast evaluator, returns the triple the evaluator replied,
\* unchanged, also when the triple breaks lower <= 0 <= upper.
C7_FastPassThrough ==
    (self.exists /\ last.op = "evaluate_fast" /\ RightLength
        /\ self.obj_funct_fast # "None")
        => /\ last.outcome = "return"
           /\ last.value = FastReply(self.obj_funct_fast, last.x)
           /\ last.invoked = <<[fn |-> self.obj_funct_fast, arg |-> last.x,
                                reply |-> last.value]>>

C7_Witness ==
    /\ self.exists /\ last.op = "evaluate_fast" /\ RightLength /\ Dim > 0
    /\ last.outcome = "return" /\ last.value[2] > 0 /\ last.value[3] < 0

\* C8: after a successful construction get_dimension() is the dimension
\* given, the arrays behind get_var_lower() and get_var_upper() have that
\* length and the one behind get_integer_vars() is no longer.
C8_ShapeInvariant ==
    self.exists =>
        /\ get_dimension(self) = args.dimension
        /\ args.dimension.kind = "int"
        /\ Len(OwnLower) = get_dimension(self).val
        /\ Len(OwnUpper) = get_dimension(self).val
        /\ Len(OwnIntegerVars) <= get_dimension(self).val
        /\ last.op = "get_dimension" => last.value = args.dimension

C8_Witness ==
    /\ self.exists /\ last.op = "get_dimension" /\ last.value = PyInt(5)
    /\ Len(OwnIntegerVars) = 3 /\ ticks > 0

Completes(t) == pcs[t].pc # "idle" /\ pcs'[t].pc = "idle"

\* the outcome of the thread's call had it run with no other call under way
Alone(t) ==
    IF pcs[t].op = "evaluate" THEN evaluate(self, pcs[t].x, ticks)
    ELSE evaluate_fast(self, pcs[t].x, ticks)

\* C9: no step of any call, returning or raising, by any thread, changes the
\* adapter's fields or its arrays, and a call that ends among other calls
\* ends as the same call run alone ends.
C9_CallsLeaveAdapterAlone ==
    [][self.exists =>
          /\ self' = self
          /\ heap' = heap
          /\ \A t \in Threads :
                Completes(t) => last' = Called(pcs[t].op, pcs[t].x, Alone(t))]_vars

C9_Witness ==
    /\ self.exists
    /\ pcs["t1"].pc = "checked" /\ pcs["t2"].pc = "checked"
    /\ pcs["t1"].op = "evaluate" /\ pcs["t2"].op = "evaluate_fast"
    /\ last.op = "evaluate" /\ last.outcome = "return" /\ ticks > 0

====
